---- MODULE Spec2Model ----
(***************************************************************************)
(* A model of the CCIP tool server (src/mcp-server.py): the chain resolver *)
(* find_closest_chain and the tool dispatcher handle_call_tool with its    *)
(* eight-step cross-chain transfer.                                        *)
(*                                                                         *)
(* A Python str is a sequence of characters, each a one-character string.  *)
(* The fixed fragments of the f-string templates, and opaque values that   *)
(* the program only passes on (contract handles, error texts, keys,        *)
(* amounts), are single longer elements: no program operation looks inside *)
(* them.  String concatenation is \o.                                      *)
(***************************************************************************)
EXTENDS Integers, Sequences, FiniteSets, TLC

VARIABLES
    SUPPORTED_CHAINS,   \* the module-level registry dict: a sequence of [key, aliases] in insertion order
    pc,                 \* per invocation: "idle", "called", "step", "done", "raised"
    name,               \* per invocation: the tool name of the request
    arguments,          \* per invocation: the argument map of the request (a function on its keys)
    frame,              \* per invocation: the local variables of handle_call_tool
    step,               \* per invocation: the number of the capability call in flight (0: none)
    clients,            \* per invocation: the CCIPClient constructions, in order: the private key given
                        \* and str(e) of the exception raised (None if none)
    calls,              \* per invocation: the capability calls issued, in order, with their outcomes
    response            \* per invocation: the text returned, or None

vars == <<SUPPORTED_CHAINS, pc, name, arguments, frame, step, clients, calls, response>>

----------------------------------------------------------------------------
(* Python values *)

\* Python's None; no str equals it, since a str's elements are not "<None>".
None == <<"<None>">>

\* A local variable that has not been assigned yet.
Unbound == <<"<unbound>">>

Lowercase == <<"a","b","c","d","e","f","g","h","i","j","k","l","m",
               "n","o","p","q","r","s","t","u","v","w","x","y","z">>

Uppercase == <<"A","B","C","D","E","F","G","H","I","J","K","L","M",
               "N","O","P","Q","R","S","T","U","V","W","X","Y","Z">>

\* The characters str.strip() removes (those of them the inputs use).
Whitespace == {" ", "\t", "\n"}

\* The characters of the aliases in code-point order (str comparison).
CodeOrder == <<" ", "_">> \o Lowercase

Ord(c) == CHOOSE k \in 1..Len(CodeOrder) : CodeOrder[k] = c

Range(s) == {s[k] : k \in 1..Len(s)}

\* str.lower()
Lower(s) ==
    [k \in 1..Len(s) |->
        IF \E j \in 1..Len(Uppercase) : Uppercase[j] = s[k]
        THEN Lowercase[CHOOSE j \in 1..Len(Uppercase) : Uppercase[j] = s[k]]
        ELSE s[k]]

\* str.upper(), used to build inputs only
Upper(s) ==
    [k \in 1..Len(s) |->
        IF \E j \in 1..Len(Lowercase) : Lowercase[j] = s[k]
        THEN Uppercase[CHOOSE j \in 1..Len(Lowercase) : Lowercase[j] = s[k]]
        ELSE s[k]]

\* str.strip()
Strip(s) ==
    LET keep == {k \in 1..Len(s) : s[k] \notin Whitespace}
    IN  IF keep = {} THEN <<>>
        ELSE LET lo == CHOOSE k \in keep : \A m \in keep : k <= m
                 hi == CHOOSE k \in keep : \A m \in keep : m <= k
             IN  SubSeq(s, lo, hi)

\* x < y for two str (lexicographic by code point)
StrLess(x, y) ==
    \/ Len(x) < Len(y) /\ SubSeq(y, 1, Len(x)) = x
    \/ \E k \in 1..Len(x) :
          /\ k <= Len(y)
          /\ SubSeq(x, 1, k - 1) = SubSeq(y, 1, k - 1)
          /\ Ord(x[k]) < Ord(y[k])

\* The value of a singleton set.  Evaluated({F(x) : x \in {e}}) is
\* LET x == e IN F(x) with e evaluated once, however often F uses x.
Evaluated(S) == CHOOSE r \in S : TRUE

\* sub in text
Contains(text, sub) ==
    \E k \in 0..(Len(text) - Len(sub)) : SubSeq(text, k + 1, k + Len(sub)) = sub

----------------------------------------------------------------------------
(* The registry *)

InitialChains == <<
    [key |-> <<"e","t","h","e","r","e","u","m","_","s","e","p","o","l","i","a">>,
     aliases |-> <<
        <<"e","t","h","e","r","e","u","m">>,
        <<"e","t","h">>,
        <<"s","e","p","o","l","i","a">>,
        <<"e","t","h","e","r","e","u","m"," ","s","e","p","o","l","i","a">>,
        <<"e","t","h"," ","s","e","p","o","l","i","a">>,
        <<"e","t","h","e","r","e","u","m","_","s","e","p","o","l","i","a">>>>],
    [key |-> <<"b","a","s","e","_","s","e","p","o","l","i","a">>,
     aliases |-> <<
        <<"b","a","s","e">>,
        <<"b","a","s","e"," ","s","e","p","o","l","i","a">>,
        <<"b","a","s","e","_","s","e","p","o","l","i","a">>,
        <<"c","o","i","n","b","a","s","e">>>>],
    [key |-> <<"a","r","b","i","t","r","u","m","_","s","e","p","o","l","i","a">>,
     aliases |-> <<
        <<"a","r","b","i","t","r","u","m">>,
        <<"a","r","b">>,
        <<"a","r","b","i","t","r","u","m"," ","s","e","p","o","l","i","a">>,
        <<"a","r","b","i","t","r","u","m","_","s","e","p","o","l","i","a">>,
        <<"a","r","b"," ","s","e","p","o","l","i","a">>>>],
    [key |-> <<"a","v","a","l","a","n","c","h","e","_","f","u","j","i">>,
     aliases |-> <<
        <<"a","v","a","l","a","n","c","h","e">>,
        <<"a","v","a","x">>,
        <<"f","u","j","i">>,
        <<"a","v","a","l","a","n","c","h","e"," ","f","u","j","i">>,
        <<"a","v","a","l","a","n","c","h","e","_","f","u","j","i">>,
        <<"a","v","a","x"," ","f","u","j","i">>>>] >>

\* list(SUPPORTED_CHAINS.keys())
ChainKeys(chains) == [c \in 1..Len(chains) |-> chains[c].key]

----------------------------------------------------------------------------
(* difflib.get_close_matches(word, possibilities, n=1, cutoff=0.6), as      *)
(* find_closest_chain calls it.  SequenceMatcher is used with seq1 = the    *)
(* possibility (a) and seq2 = the word (b), no junk (the sequences are far  *)
(* shorter than the 200 elements at which autojunk starts).  Indices are    *)
(* Python's: 0-based, half-open.                                            *)

\* The cutoff 0.6 as a fraction.
CutoffNum == 6
CutoffDen == 10

\* The inner loop of find_longest_match for one i: among the positions js
\* of b that hold a[i], in ascending order, the first whose run k is the
\* longest, taken if k > bestsize.
BestAfterRow(i, js, newj2len, best) ==
    IF js = {} THEN best
    ELSE LET kmax == CHOOSE k \in {newj2len[j] : j \in js} :
                        \A j \in js : newj2len[j] <= k
             jmin == CHOOSE j \in js :
                        /\ newj2len[j] = kmax
                        /\ \A m \in js : newj2len[m] = kmax => j <= m
         IN  IF kmax > best[3]
             THEN <<i - kmax + 1, jmin - kmax + 1, kmax>>
             ELSE best

\* One pass of the outer loop of find_longest_match, for row i: j2len maps
\* the positions of b to the length of the run ending there in the previous
\* row.  <<newj2len, best>>
RowStep(a, b, i, blo, bhi, j2len, best) ==
    LET js == {j \in blo..(bhi - 1) : b[j + 1] = a[i + 1]}
        newj2len == [j \in js |->
                        (IF (j - 1) \in DOMAIN j2len THEN j2len[j - 1] ELSE 0) + 1]
    IN  <<newj2len, BestAfterRow(i, js, newj2len, best)>>

\* The outer loop of find_longest_match from row i on
RECURSIVE LongestMatchFrom(_, _, _, _, _, _, _, _)
LongestMatchFrom(a, b, i, ahi, blo, bhi, j2len, best) ==
    IF i >= ahi THEN best
    ELSE Evaluated({LongestMatchFrom(a, b, row[3], ahi, blo, bhi, row[1], row[2]) :
                       row \in {RowStep(a, b, i, blo, bhi, j2len, best) \o <<i + 1>>}})

\* SequenceMatcher.find_longest_match(alo, ahi, blo, bhi): <<i, j, k>>
find_longest_match(a, b, alo, ahi, blo, bhi) ==
    LongestMatchFrom(a, b, alo, ahi, blo, bhi, [j \in {} |-> 0], <<alo, blo, 0>>)

\* The sum of the sizes of SequenceMatcher.get_matching_blocks()
RECURSIVE MatchingSize(_, _, _, _, _, _)
MatchingSize(a, b, alo, ahi, blo, bhi) ==
    Evaluated({
        LET i == m[1]
            j == m[2]
            k == m[3]
        IN  IF k = 0 THEN 0
            ELSE k + (IF alo < i /\ blo < j
                      THEN MatchingSize(a, b, alo, i, blo, j) ELSE 0)
                   + (IF i + k < ahi /\ j + k < bhi
                      THEN MatchingSize(a, b, i + k, ahi, j + k, bhi) ELSE 0) :
        m \in {find_longest_match(a, b, alo, ahi, blo, bhi)}})

\* SequenceMatcher.ratio() = 2.0 * matches / (len(a) + len(b)), as the
\* fraction <<numerator, denominator>>; 1.0 when both are empty.
Ratio(a, b) ==
    IF Len(a) + Len(b) = 0 THEN <<1, 1>>
    ELSE <<2 * MatchingSize(a, b, 0, Len(a), 0, Len(b)), Len(a) + Len(b)>>

\* r >= cutoff
AtLeastCutoff(r) == r[1] * CutoffDen >= CutoffNum * r[2]

\* r1 < r2, r1 = r2 for two ratios
RatioLess(r1, r2) == r1[1] * r2[2] < r2[1] * r1[2]
RatioEq(r1, r2) == r1[1] * r2[2] = r2[1] * r1[2]

\* (score1, x1) < (score2, x2): Python's tuple comparison
ScoredLess(s1, s2) ==
    \/ RatioLess(s1[1], s2[1])
    \/ RatioEq(s1[1], s2[1]) /\ StrLess(s1[2], s2[2])

\* The (score, x) pairs of the possibilities that reach the cutoff
Scored(word, possibilities) ==
    {s \in {<<Ratio(x, word), x>> : x \in Range(possibilities)} : AtLeastCutoff(s[1])}

\* max(result) by ScoredLess, and min(result)
MaxScored(result) == CHOOSE s \in result : \A t \in result : t = s \/ ScoredLess(t, s)
MinScored(result) == CHOOSE s \in result : \A t \in result : t = s \/ ScoredLess(s, t)

\* get_close_matches(word, possibilities, n=1, cutoff=0.6): the list of the
\* best match (heapq.nlargest(1, result) is max(result)), or the empty list.
get_close_matches_worst(word, possibilities) ==
    Evaluated({IF result = {} THEN <<>> ELSE <<MinScored(result)[2]>> :
               result \in {Scored(word, possibilities)}})

get_close_matches(word, possibilities) ==
    Evaluated({IF result = {} THEN <<>> ELSE <<MaxScored(result)[2]>> :
               result \in {Scored(word, possibilities)}})

----------------------------------------------------------------------------
(* find_closest_chain *)

\* user_input.lower().strip()
NormalizeCaseKept(user_input) == Strip(user_input)

Normalize(user_input) == Strip(Lower(user_input))

\* [alias.lower() for alias in aliases]
LowerAll(aliases) == [k \in 1..Len(aliases) |-> Lower(aliases[k])]

\* The direct-match loop: the key of the first chain, in registry order,
\* one of whose lower-cased aliases is the normalized input; None if none.
DirectMatch(chains, user_input_lower) ==
    LET hits == {c \in 1..Len(chains) : user_input_lower \in Range(LowerAll(chains[c].aliases))}
    IN  IF hits = {} THEN None
        ELSE chains[CHOOSE c \in hits : \A d \in hits : c <= d].key

\* all_aliases: the lower-cased aliases of all chains in registry order
RECURSIVE AllAliasesFrom(_, _)
AllAliasesFrom(chains, c) ==
    IF c > Len(chains) THEN <<>>
    ELSE LowerAll(chains[c].aliases) \o AllAliasesFrom(chains, c + 1)

AllAliases(chains) == AllAliasesFrom(chains, 1)

\* chain_mapping[alias]: the key of the last chain, in registry order, that
\* has the alias (a later assignment overwrites an earlier one)
ChainMapping(chains, alias) ==
    LET owners == {c \in 1..Len(chains) : alias \in Range(LowerAll(chains[c].aliases))}
    IN  chains[CHOOSE c \in owners : \A d \in owners : d <= c].key

\* The fuzzy pass
FuzzyMatch(chains, user_input_lower) ==
    Evaluated({IF matches # <<>> THEN ChainMapping(chains, matches[1]) ELSE None :
               matches \in {get_close_matches(user_input_lower, AllAliases(chains))}})

find_closest_chain_in(chains, user_input) ==
    Evaluated({
        Evaluated({IF direct # None THEN direct ELSE FuzzyMatch(chains, user_input_lower) :
                   direct \in {DirectMatch(chains, user_input_lower)}}) :
        user_input_lower \in {Normalize(user_input)}})

find_closest_chain(user_input) == find_closest_chain_in(SUPPORTED_CHAINS, user_input)

----------------------------------------------------------------------------
(* The requests.  The emoji of the templates are written as ASCII tags:     *)
(* [X] the cross mark, [OK] the check mark, [>>] the arrows, [GO] the       *)
(* rocket, [i] the clipboard, [..] the hourglass, [!!] the party popper,    *)
(* [*] the sparkles, [@] the link, [#] the chart, [o] the target; the      *)
(* backquote is written ~.                                                 *)

\* The invocations the dispatch layer may have running.
Invocations == {1, 2}

EXECUTE == <<"execute_ccip_transfer">>
FIND == <<"find_supported_chain">>

\* The tool names a request may carry (one of them unknown).
ToolNames == {EXECUTE, FIND, <<"get_balance">>}

\* Free-form chain inputs of the transfer requests: aliases (exact, and in
\* another case with whitespace around), a typo and an unknown name.
ChainInputs == {
    <<"e","t","h">>,
    <<"s","e","p","o","l","i","a">>,
    <<" ","B","a","s","e"," ">>,
    <<"a","r","b","i","t","r","u","n">>,
    <<"A","V","A","X">>,
    <<"x","y","z","1","2","3">> }

PrivateKeys == {<<"0xKEY1">>, <<"0xKEY2">>}

RequiredKeys == {"sender_chain", "receiver_chain", "private_key"}
OptionalKeys == {"token_type", "token_amount", "eth_amount", "transfer_amount", "message"}

\* The values the optional arguments carry when they are present.
GivenOptionals == [token_type |-> <<"LINK">>, token_amount |-> <<"2.5">>,
                   eth_amount |-> <<"0.01">>, transfer_amount |-> <<"1.25">>,
                   message |-> <<"h","i">>]

\* The key sets of the argument maps: the required keys alone, with all or
\* some of the optional ones, and with one required key missing.
KeySets ==
    {RequiredKeys, RequiredKeys \cup OptionalKeys,
     RequiredKeys \cup {"token_amount", "message"}}
    \cup {RequiredKeys \ {k} : k \in RequiredKeys}

ExecuteArguments ==
    {[k \in K |->
        CASE k = "sender_chain" -> s
          [] k = "receiver_chain" -> r
          [] k = "private_key" -> p
          [] OTHER -> GivenOptionals[k]] :
     s \in ChainInputs, r \in ChainInputs, p \in PrivateKeys, K \in KeySets}

FindArguments ==
    {[k \in {"chain_input"} |-> c] : c \in ChainInputs} \cup {[k \in {} |-> <<>>]}

ArgumentsOf(n) == IF n = EXECUTE THEN ExecuteArguments ELSE FindArguments

----------------------------------------------------------------------------
(* The capability: ccip_sdk.CCIPClient, outside the repository.  A call     *)
(* returns a value or raises an exception; the handler sees only that.      *)

StepOps == <<"deploy_sender_contract", "send_tokens_to_sender_contract",
             "send_eth_to_contract", "allow_destination_chain",
             "deploy_receiver_contract", "allow_source_chain",
             "allow_sender_on_receiver", "transfer">>

\* The values a capability call may return: two for the calls whose result
\* the summary reports (the two contracts and the tracking URL), one for the
\* transaction hashes.
ReturnValues(k) ==
    IF k \in {1, 5} THEN {<<"0xC0FFEE">>, <<"0xBEEF">>}
    ELSE IF k = 8 THEN {<<"https://ccip/msg/1">>, <<"https://ccip/msg/2">>}
    ELSE {<<"0xTX">>}

\* str(e) of the exceptions a capability call, or the constructor, may raise.
ErrorTexts == {<<"execution reverted">>, <<"insufficient funds">>}

----------------------------------------------------------------------------
(* The texts *)

\* repr of a list of str: ['a', 'b']
RECURSIVE ReprItems(_, _)
ReprItems(l, k) ==
    IF k > Len(l) THEN <<>>
    ELSE (IF k > 1 THEN <<", ">> ELSE <<>>) \o <<"'">> \o l[k] \o <<"'">> \o ReprItems(l, k + 1)

ListRepr(l) == <<"[">> \o ReprItems(l, 1) \o <<"]">>

StepDigit(k) == <<"1", "2", "3", "4", "5", "6", "7", "8">>[k]

\* "**Step k:**", as the progress lines write it
StepMarker(k) == <<"[>>] **Step ", StepDigit(k), ":**">>

\* line 136
InvalidSenderText(chains, sender_input) ==
    <<"[X] Invalid sender chain '">> \o sender_input \o <<"'. Supported: ">>
        \o ListRepr(ChainKeys(chains))

\* line 142
InvalidReceiverText(chains, receiver_input) ==
    <<"[X] Invalid receiver chain '">> \o receiver_input \o <<"'. Supported: ">>
        \o ListRepr(ChainKeys(chains))

\* line 148
SameChainText == <<"[X] Sender and receiver chains must be different">>

SupportedTokensText == <<"**Supported Tokens:** LINK, CCIP-BnM, USDC, CCIP-LnM\n">>

\* lines 239-251: error_msg for str(e) = e
error_msg_no_chains(chains, e) ==
    <<"[X] **Transfer Failed**\n\n", "**Error:** ">> \o e \o
    <<"\n\n**Troubleshooting:**\n",
      "* Check your private key has sufficient funds on both chains\n",
      "* Verify chain names are correct\n",
      "* Ensure token type is supported\n",
      "* Check network connectivity\n\n">> \o SupportedTokensText

error_msg_classified(chains, e) ==
    <<"[X] **Transfer Failed**\n\n", "**Error:** ", "capability error">> \o
    <<"\n\n**Troubleshooting:**\n",
      "* Check your private key has sufficient funds on both chains\n",
      "* Verify chain names are correct\n",
      "* Ensure token type is supported\n",
      "* Check network connectivity\n\n",
      "**Supported Chains:** ">> \o ListRepr(ChainKeys(chains)) \o <<"\n">> \o
    SupportedTokensText

error_msg(chains, e) ==
    <<"[X] **Transfer Failed**\n\n", "**Error:** ">> \o e \o
    <<"\n\n**Troubleshooting:**\n",
      "* Check your private key has sufficient funds on both chains\n",
      "* Verify chain names are correct\n",
      "* Ensure token type is supported\n",
      "* Check network connectivity\n\n",
      "**Supported Chains:** ">> \o ListRepr(ChainKeys(chains)) \o <<"\n">> \o
    SupportedTokensText

\* str(KeyError(k)): the repr of the key
KeyErrorText(k) == <<"'", k, "'">>

\* lines 162-173: the head of result_text
StartTextWithKey(f) ==
    <<"[GO] **Starting CCIP Cross-Chain Transfer**\n\n", "[i] **Configuration:**\n",
      "* **Key:** ">> \o f.private_key \o <<"\n",
      "* **From:** ">> \o f.sender_chain \o <<"\n", "* **To:** ">> \o f.receiver_chain \o
    <<"\n", "* **Token:** ">> \o f.token_type \o <<"\n", "* **Amount:** ">> \o
    f.transfer_amount \o <<"\n", "* **Message:** \"">> \o f.message \o
    <<"\"\n", "\n[..] **Executing all steps...**\n\n">>

StartText(f) ==
    <<"[GO] **Starting CCIP Cross-Chain Transfer**\n\n", "[i] **Configuration:**\n",
      "* **From:** ">> \o f.sender_chain \o <<"\n", "* **To:** ">> \o f.receiver_chain \o
    <<"\n", "* **Token:** ">> \o f.token_type \o <<"\n", "* **Amount:** ">> \o
    f.transfer_amount \o <<"\n", "* **Message:** \"">> \o f.message \o
    <<"\"\n", "\n[..] **Executing all steps...**\n\n">>

\* The line added to result_text before the call of step k
AttemptText(k, f) ==
    StepMarker(k) \o
    CASE k = 1 -> <<" Deploying sender contract...\n">>
      [] k = 2 -> <<" Sending ">> \o f.token_amount \o <<" ">> \o f.token_type \o <<" to sender...\n">>
      [] k = 3 -> <<" Sending ">> \o f.eth_amount \o <<" ETH for gas...\n">>
      [] k = 4 -> <<" Configuring destination chain (">> \o f.receiver_chain \o <<")...\n">>
      [] k = 5 -> <<" Deploying receiver contract...\n">>
      [] k = 6 -> <<" Configuring source chain (">> \o f.sender_chain \o <<")...\n">>
      [] k = 7 -> <<" Linking sender and receiver contracts...\n">>
      [] k = 8 -> <<" Executing cross-chain transfer of ">> \o f.transfer_amount \o <<" ">>
                    \o f.token_type \o <<"...\n">>

\* The line added to result_text after the call of step k (1..7) returned v
ResultTextWithoutValue(k, v) ==
    <<"[OK] ">> \o
    <<<<"Sender contract deployed">>, <<"Tokens sent">>, <<"ETH sent">>,
      <<"Destination configured">>, <<"Receiver contract deployed">>,
      <<"Source configured">>, <<"Contracts linked">>>>[k]
    \o <<"\n\n">>

ResultText(k, v) ==
    <<"[OK] ">> \o
    <<<<"Sender contract deployed: ~">>, <<"Tokens sent: ~">>, <<"ETH sent: ~">>,
      <<"Destination configured: ~">>, <<"Receiver contract deployed: ~">>,
      <<"Source configured: ~">>, <<"Contracts linked: ~">>>>[k]
    \o v \o <<"~\n\n">>

CompleteMark == <<"[!!] **TRANSFER COMPLETE!**\n\n">>
AllStepsMark == <<"[o] **All 8 steps completed successfully!**\n">>

TrackLine(transfer_url) == <<"[@] **Track Transfer:** ">> \o transfer_url \o <<"\n\n">>
SenderContractLine(sender_contract) == <<"* **Sender Contract:** ~">> \o sender_contract \o <<"~\n">>
ReceiverContractLine(receiver_contract) == <<"* **Receiver Contract:** ~">> \o receiver_contract \o <<"~\n">>

\* lines 219-234: the tail of result_text
CompleteTextSwapped(f) ==
    CompleteMark \o
    <<"[*] **Success!** Cross-chain transfer executed successfully!\n\n">> \o
    TrackLine(f.transfer_url) \o <<"[#] **Summary:**\n">> \o
    SenderContractLine(f.receiver_contract) \o ReceiverContractLine(f.sender_contract) \o
    <<"* **From:** ">> \o f.sender_chain \o <<" \n", "* **To:** ">> \o f.receiver_chain \o
    <<"\n", "* **Amount:** ">> \o f.transfer_amount \o <<" ">> \o f.token_type \o
    <<"\n", "* **Message:** \"">> \o f.message \o <<"\"\n\n">> \o AllStepsMark

CompleteText(f) ==
    CompleteMark \o
    <<"[*] **Success!** Cross-chain transfer executed successfully!\n\n">> \o
    TrackLine(f.transfer_url) \o <<"[#] **Summary:**\n">> \o
    SenderContractLine(f.sender_contract) \o ReceiverContractLine(f.receiver_contract) \o
    <<"* **From:** ">> \o f.sender_chain \o <<" \n", "* **To:** ">> \o f.receiver_chain \o
    <<"\n", "* **Amount:** ">> \o f.transfer_amount \o <<" ">> \o f.token_type \o
    <<"\n", "* **Message:** \"">> \o f.message \o <<"\"\n\n">> \o AllStepsMark

\* line 261
ChainFoundText(chain_input, match) ==
    <<"[OK] **Chain Found:** ~">> \o chain_input \o <<"~ -> ~">> \o match \o <<"~">>

\* line 266
NoMatchTextUnlisted(chains, chain_input) ==
    <<"[X] **No Match:** ~">> \o chain_input \o <<"~\n\nSupported: ">>
        \o ListRepr(SubSeq(ChainKeys(chains), 1, Len(chains) - 1))

NoMatchText(chains, chain_input) ==
    <<"[X] **No Match:** ~">> \o chain_input \o <<"~\n\nSupported: ">>
        \o ListRepr(ChainKeys(chains))

\* line 272
UnknownToolText(n) == <<"[X] Unknown tool: ">> \o n

----------------------------------------------------------------------------
(* handle_call_tool *)

\* The locals of handle_call_tool before any of them is assigned.
FreshFrame ==
    [sender_input |-> Unbound, receiver_input |-> Unbound, private_key |-> Unbound,
     sender_chain |-> Unbound, receiver_chain |-> Unbound,
     token_type |-> Unbound, token_amount |-> Unbound, eth_amount |-> Unbound,
     transfer_amount |-> Unbound, message |-> Unbound,
     client |-> Unbound, result_text |-> Unbound,
     sender_contract |-> Unbound, token_txn |-> Unbound, eth_txn |-> Unbound,
     dest_txn |-> Unbound, receiver_contract |-> Unbound, source_txn |-> Unbound,
     link_txn |-> Unbound, transfer_url |-> Unbound,
     chain_input |-> Unbound, match |-> Unbound]

\* arguments.get(k, default)
Get(args, k, default) == IF k \in DOMAIN args THEN args[k] ELSE default

\* lines 152-156: the optional parameters and their defaults
WithOptionals(f, args) ==
    [f EXCEPT !.token_type = Get(args, "token_type", <<"CCIP-BnM">>),
              !.token_amount = Get(args, "token_amount", <<"0.1">>),
              !.eth_amount = Get(args, "eth_amount", <<"0.05">>),
              !.transfer_amount = Get(args, "transfer_amount", <<"0.069">>),
              !.message = Get(args, "message", <<"Cross-chain transfer via MCP">>)]

\* The local that receives the result of step k
StepResultVar == <<"sender_contract", "token_txn", "eth_txn", "dest_txn",
                   "receiver_contract", "source_txn", "link_txn", "transfer_url">>

\* The arguments of the capability call of step k: positional ones by
\* position, keyword ones by keyword.
StepArgsCrossed(k, f) ==
    CASE k = 1 -> [arg0 |-> f.sender_chain]
      [] k = 2 -> [arg0 |-> f.sender_chain, arg1 |-> f.token_type, arg2 |-> f.token_amount]
      [] k = 3 -> [arg0 |-> f.sender_chain, arg1 |-> f.eth_amount]
      [] k = 4 -> [current_chain |-> f.sender_chain, destination_chain |-> f.receiver_chain]
      [] k = 5 -> [arg0 |-> f.receiver_chain]
      [] k = 6 -> [current_chain |-> f.sender_chain, sender_chain |-> f.receiver_chain]
      [] k = 7 -> [sender_chain |-> f.sender_chain, receiver_chain |-> f.receiver_chain]
      [] k = 8 -> [sender_chain |-> f.sender_chain, receiver_chain |-> f.receiver_chain,
                   text |-> f.message, amount |-> f.transfer_amount]

StepArgsTokenAmount(k, f) ==
    CASE k = 1 -> [arg0 |-> f.sender_chain]
      [] k = 2 -> [arg0 |-> f.sender_chain, arg1 |-> f.token_type, arg2 |-> f.token_amount]
      [] k = 3 -> [arg0 |-> f.sender_chain, arg1 |-> f.eth_amount]
      [] k = 4 -> [current_chain |-> f.sender_chain, destination_chain |-> f.receiver_chain]
      [] k = 5 -> [arg0 |-> f.receiver_chain]
      [] k = 6 -> [current_chain |-> f.receiver_chain, sender_chain |-> f.sender_chain]
      [] k = 7 -> [sender_chain |-> f.sender_chain, receiver_chain |-> f.receiver_chain]
      [] k = 8 -> [sender_chain |-> f.sender_chain, receiver_chain |-> f.receiver_chain,
                   text |-> f.message, amount |-> f.token_amount]

StepArgs(k, f) ==
    CASE k = 1 -> [arg0 |-> f.sender_chain]
      [] k = 2 -> [arg0 |-> f.sender_chain, arg1 |-> f.token_type, arg2 |-> f.token_amount]
      [] k = 3 -> [arg0 |-> f.sender_chain, arg1 |-> f.eth_amount]
      [] k = 4 -> [current_chain |-> f.sender_chain, destination_chain |-> f.receiver_chain]
      [] k = 5 -> [arg0 |-> f.receiver_chain]
      [] k = 6 -> [current_chain |-> f.receiver_chain, sender_chain |-> f.sender_chain]
      [] k = 7 -> [sender_chain |-> f.sender_chain, receiver_chain |-> f.receiver_chain]
      [] k = 8 -> [sender_chain |-> f.sender_chain, receiver_chain |-> f.receiver_chain,
                   text |-> f.message, amount |-> f.transfer_amount]

\* The capability call of step k as it is issued: client.<op>(<args>)
IssueCall(k, f) ==
    [op |-> StepOps[k], args |-> StepArgs(k, f), client |-> f.client,
     outcome |-> "pending", value |-> None]

\* The invocation's state after a piece of the handler ran.  The locals,
\* the client and the calls belong to the invocation: each invocation of
\* the coroutine has its own.  (GotoShared keeps the locals in one place
\* for all invocations, as module-level names would be.)
GotoShared(i, p, f, s, cl, cs, r) ==
    /\ pc' = [pc EXCEPT ![i] = p]
    /\ frame' = [j \in Invocations |-> f]
    /\ step' = [step EXCEPT ![i] = s]
    /\ clients' = [clients EXCEPT ![i] = cl]
    /\ calls' = [calls EXCEPT ![i] = cs]
    /\ response' = [response EXCEPT ![i] = r]
    /\ UNCHANGED <<SUPPORTED_CHAINS, name, arguments>>

Goto(i, p, f, s, cl, cs, r) ==
    /\ pc' = [pc EXCEPT ![i] = p]
    /\ frame' = [frame EXCEPT ![i] = f]
    /\ step' = [step EXCEPT ![i] = s]
    /\ clients' = [clients EXCEPT ![i] = cl]
    /\ calls' = [calls EXCEPT ![i] = cs]
    /\ response' = [response EXCEPT ![i] = r]
    /\ UNCHANGED <<SUPPORTED_CHAINS, name, arguments>>

\* return [TextContent(text)] with the locals f
ReturnText(i, f, text) == Goto(i, "done", f, step[i], clients[i], calls[i], text)

\* lines 133-149: the text of the validation failure for the resolved
\* chains in f, None if validation passes.  (not x, for x a chain key or
\* None, holds of None alone: no key is the empty str.)
ValidationFailureNoSameCheck(chains, f) ==
    IF f.sender_chain = None THEN InvalidSenderText(chains, f.sender_input)
    ELSE IF f.receiver_chain = None THEN InvalidReceiverText(chains, f.receiver_input)
    ELSE None

ValidationFailureReceiverFirst(chains, f) ==
    IF f.receiver_chain = None THEN InvalidReceiverText(chains, f.receiver_input)
    ELSE IF f.sender_chain = None THEN InvalidSenderText(chains, f.sender_input)
    ELSE IF f.sender_chain = f.receiver_chain THEN SameChainText
    ELSE None

ValidationFailure(chains, f) ==
    IF f.sender_chain = None THEN InvalidSenderText(chains, f.sender_input)
    ELSE IF f.receiver_chain = None THEN InvalidReceiverText(chains, f.receiver_input)
    ELSE IF f.sender_chain = f.receiver_chain THEN SameChainText
    ELSE None

\* The dispatch layer receives a tool call.
Call(i, n, args) ==
    /\ pc[i] = "idle"
    /\ pc' = [pc EXCEPT ![i] = "called"]
    /\ name' = [name EXCEPT ![i] = n]
    /\ arguments' = [arguments EXCEPT ![i] = args]
    /\ UNCHANGED <<SUPPORTED_CHAINS, frame, step, clients, calls, response>>

\* lines 122-177 and 238-252: the execute_ccip_transfer branch from its
\* entry to the moment the call of step 1 is issued, or to its return.  ctor
\* is str(e) of the exception CCIPClient(...) raises, None if it raises none.
\* The client is constructed after validation.  (HandleExecuteClientFirst
\* constructs it before.)
HandleExecuteClientFirst(i, ctor) ==
    /\ pc[i] = "called"
    /\ name[i] = EXECUTE
    /\ LET args == arguments[i]
           chains == SUPPORTED_CHAINS
           f0 == frame[i]
       IN  IF "sender_chain" \notin DOMAIN args
           THEN ReturnText(i, f0, error_msg(chains, KeyErrorText("sender_chain")))
           ELSE IF "receiver_chain" \notin DOMAIN args
           THEN ReturnText(i, [f0 EXCEPT !.sender_input = args["sender_chain"]],
                           error_msg(chains, KeyErrorText("receiver_chain")))
           ELSE IF "private_key" \notin DOMAIN args
           THEN ReturnText(i, [f0 EXCEPT !.sender_input = args["sender_chain"],
                                         !.receiver_input = args["receiver_chain"]],
                           error_msg(chains, KeyErrorText("private_key")))
           ELSE
           \E f1 \in {[f0 EXCEPT !.sender_input = args["sender_chain"],
                                 !.receiver_input = args["receiver_chain"],
                                 !.private_key = args["private_key"],
                                 !.sender_chain = find_closest_chain(args["sender_chain"]),
                                 !.receiver_chain = find_closest_chain(args["receiver_chain"])]} :
           \E built \in {Append(clients[i], [private_key |-> f1.private_key, raised |-> ctor])} :
           \E invalid \in {ValidationFailure(chains, f1)} :
               IF invalid # None
               THEN Goto(i, "done", f1, step[i], built, calls[i], invalid)
               ELSE
               \E f2 \in {WithOptionals(f1, args)} :
                   IF ctor # None
                   THEN Goto(i, "done", f2, step[i], built, calls[i], error_msg(chains, ctor))
                   ELSE
                   \E f3 \in {[f2 EXCEPT !.client = f2.private_key]} :
                   \E f4 \in {[f3 EXCEPT !.result_text = StartText(f3) \o AttemptText(1, f3)]} :
                       Goto(i, "step", f4, 1, built, <<IssueCall(1, f4)>>, response[i])

HandleExecute(i, ctor) ==
    /\ pc[i] = "called"
    /\ name[i] = EXECUTE
    /\ LET args == arguments[i]
           chains == SUPPORTED_CHAINS
           f0 == frame[i]
       IN  IF "sender_chain" \notin DOMAIN args
           THEN ReturnText(i, f0, error_msg(chains, KeyErrorText("sender_chain")))
           ELSE IF "receiver_chain" \notin DOMAIN args
           THEN ReturnText(i, [f0 EXCEPT !.sender_input = args["sender_chain"]],
                           error_msg(chains, KeyErrorText("receiver_chain")))
           ELSE IF "private_key" \notin DOMAIN args
           THEN ReturnText(i, [f0 EXCEPT !.sender_input = args["sender_chain"],
                                         !.receiver_input = args["receiver_chain"]],
                           error_msg(chains, KeyErrorText("private_key")))
           ELSE
           \E f1 \in {[f0 EXCEPT !.sender_input = args["sender_chain"],
                                 !.receiver_input = args["receiver_chain"],
                                 !.private_key = args["private_key"],
                                 !.sender_chain = find_closest_chain(args["sender_chain"]),
                                 !.receiver_chain = find_closest_chain(args["receiver_chain"])]} :
           \E invalid \in {ValidationFailure(chains, f1)} :
               IF invalid # None
               THEN ReturnText(i, f1, invalid)
               ELSE
               \E f2 \in {WithOptionals(f1, args)} :
               \E built \in {Append(clients[i], [private_key |-> f2.private_key, raised |-> ctor])} :
                   IF ctor # None
                   THEN Goto(i, "done", f2, step[i], built, calls[i], error_msg(chains, ctor))
                   ELSE
                   \E f3 \in {[f2 EXCEPT !.client = f2.private_key]} :
                   \E f4 \in {[f3 EXCEPT !.result_text = StartText(f3) \o AttemptText(1, f3)]} :
                       Goto(i, "step", f4, 1, built, <<IssueCall(1, f4)>>, response[i])

\* lines 177-236: the capability call of step k returns v; the handler
\* records it and issues the call of step k+1, or returns result_text.
StepReturn(i, v) ==
    /\ pc[i] = "step"
    /\ v \in ReturnValues(step[i])
    /\ \E k \in {step[i]} :
       \E f1 \in {[frame[i] EXCEPT ![StepResultVar[k]] = v]} :
       \E cs \in {[calls[i] EXCEPT ![k].outcome = "returned", ![k].value = v]} :
           IF k < Len(StepOps)
           THEN \E f2 \in {[f1 EXCEPT !.result_text =
                                @ \o ResultText(k, v) \o AttemptText(k + 1, f1)]} :
                    Goto(i, "step", f2, k + 1, clients[i], Append(cs, IssueCall(k + 1, f2)),
                         response[i])
           ELSE \E f2 \in {[f1 EXCEPT !.result_text = @ \o CompleteText(f1)]} :
                    Goto(i, "done", f2, k, clients[i], cs, f2.result_text)

\* lines 238-252: the capability call of step k raises an exception e with
\* str(e) = e; the except clause returns error_msg.
StepRaiseContinue(i, e) ==
    /\ pc[i] = "step"
    /\ \E k \in {step[i]} :
       \E cs \in {[calls[i] EXCEPT ![k].outcome = "raised", ![k].value = e]} :
           IF k < Len(StepOps)
           THEN \E f2 \in {[frame[i] EXCEPT !.result_text = @ \o AttemptText(k + 1, frame[i])]} :
                    Goto(i, "step", f2, k + 1, clients[i], Append(cs, IssueCall(k + 1, f2)),
                         response[i])
           ELSE Goto(i, "done", frame[i], k, clients[i], cs, error_msg(SUPPORTED_CHAINS, e))

StepRaiseReturnsProgress(i, e) ==
    /\ pc[i] = "step"
    /\ LET k == step[i]
           cs == [calls[i] EXCEPT ![k].outcome = "raised", ![k].value = e]
       IN  Goto(i, "done", frame[i], k, clients[i], cs, frame[i].result_text)

StepRaise(i, e) ==
    /\ pc[i] = "step"
    /\ LET k == step[i]
           cs == [calls[i] EXCEPT ![k].outcome = "raised", ![k].value = e]
       IN  Goto(i, "done", frame[i], k, clients[i], cs, error_msg(SUPPORTED_CHAINS, e))

\* lines 254-267: the find_supported_chain branch.  arguments["chain_input"]
\* is read outside any try: its KeyError leaves handle_call_tool.  The
\* branch only reads SUPPORTED_CHAINS.  (HandleFindLearning also adds the
\* input it resolved to the aliases of the chain found.)
HandleFindLearning(i) ==
    /\ pc[i] = "called"
    /\ name[i] = FIND
    /\ "chain_input" \in DOMAIN arguments[i]
    /\ \E f1 \in {[frame[i] EXCEPT !.chain_input = arguments[i]["chain_input"]]} :
       \E f2 \in {[f1 EXCEPT !.match = find_closest_chain(f1.chain_input)]} :
           /\ pc' = [pc EXCEPT ![i] = "done"]
           /\ frame' = [frame EXCEPT ![i] = f2]
           /\ response' = [response EXCEPT ![i] =
                  IF f2.match # None THEN ChainFoundText(f2.chain_input, f2.match)
                  ELSE NoMatchText(SUPPORTED_CHAINS, f2.chain_input)]
           /\ SUPPORTED_CHAINS' =
                  [c \in 1..Len(SUPPORTED_CHAINS) |->
                      IF SUPPORTED_CHAINS[c].key = f2.match
                      THEN [SUPPORTED_CHAINS[c] EXCEPT
                               !.aliases = Append(@, Normalize(f2.chain_input))]
                      ELSE SUPPORTED_CHAINS[c]]
           /\ UNCHANGED <<name, arguments, step, clients, calls>>

HandleFind(i) ==
    /\ pc[i] = "called"
    /\ name[i] = FIND
    /\ IF "chain_input" \notin DOMAIN arguments[i]
       THEN Goto(i, "raised", frame[i], step[i], clients[i], calls[i], response[i])
       ELSE \E f1 \in {[frame[i] EXCEPT !.chain_input = arguments[i]["chain_input"]]} :
            \E f2 \in {[f1 EXCEPT !.match = find_closest_chain(f1.chain_input)]} :
                IF f2.match # None
                THEN ReturnText(i, f2, ChainFoundText(f2.chain_input, f2.match))
                ELSE ReturnText(i, f2, NoMatchText(SUPPORTED_CHAINS, f2.chain_input))

\* lines 269-273: any other tool name
HandleUnknown(i) ==
    /\ pc[i] = "called"
    /\ name[i] \notin {EXECUTE, FIND}
    /\ ReturnText(i, frame[i], UnknownToolText(name[i]))

\* The dispatch layer sends the result; the invocation's locals are gone.
Deliver(i) ==
    /\ pc[i] \in {"done", "raised"}
    /\ pc' = [pc EXCEPT ![i] = "idle"]
    /\ name' = [name EXCEPT ![i] = None]
    /\ arguments' = [arguments EXCEPT ![i] = [k \in {} |-> <<>>]]
    /\ frame' = [frame EXCEPT ![i] = FreshFrame]
    /\ step' = [step EXCEPT ![i] = 0]
    /\ clients' = [clients EXCEPT ![i] = <<>>]
    /\ calls' = [calls EXCEPT ![i] = <<>>]
    /\ response' = [response EXCEPT ![i] = None]
    /\ UNCHANGED SUPPORTED_CHAINS

----------------------------------------------------------------------------
(* The server: handle_call_tool has no await, so the event loop runs one    *)
(* invocation at a time.                                                    *)

Serial == {1}

Init ==
    /\ SUPPORTED_CHAINS = InitialChains
    /\ pc = [i \in Invocations |-> "idle"]
    /\ name = [i \in Invocations |-> None]
    /\ arguments = [i \in Invocations |-> [k \in {} |-> <<>>]]
    /\ frame = [i \in Invocations |-> FreshFrame]
    /\ step = [i \in Invocations |-> 0]
    /\ clients = [i \in Invocations |-> <<>>]
    /\ calls = [i \in Invocations |-> <<>>]
    /\ response = [i \in Invocations |-> None]

Next ==
    \E i \in Serial :
        \/ \E n \in ToolNames : \E args \in ArgumentsOf(n) : Call(i, n, args)
        \/ \E ctor \in {None} \cup ErrorTexts : HandleExecute(i, ctor)
        \/ \E v \in UNION {ReturnValues(k) : k \in 1..Len(StepOps)} : StepReturn(i, v)
        \/ \E e \in ErrorTexts : StepRaise(i, e)
        \/ HandleFind(i)
        \/ HandleUnknown(i)
        \/ Deliver(i)

Spec == Init /\ [][Next]_vars

----------------------------------------------------------------------------
(* The resolver on its own: find_supported_chain called with one of many    *)
(* inputs.                                                                   *)

\* The longest run of whitespace put before or after an input.
MaxPad == 2

\* Whitespace put before and after an input.
Pads == UNION {[1..n -> {" ", "\t"}] : n \in 0..MaxPad}

\* str.capitalize() of a lower-case str
Capitalize(s) == IF s = <<>> THEN s ELSE Upper(<<s[1]>>) \o Tail(s)

\* An alias in other letter cases
CaseVariants(a) == {a, Upper(a), Capitalize(a)}

\* An alias in other letter cases, with whitespace around it
Variants(a) == {l \o x \o r : l \in Pads, r \in Pads, x \in CaseVariants(a)}

\* An alias with one character left out, one character replaced, or cut short
Deletions(a) == {SubSeq(a, 1, k - 1) \o SubSeq(a, k + 1, Len(a)) : k \in 1..Len(a)}
Substitutions(a) == {[a EXCEPT ![k] = "x"] : k \in 1..Len(a)}
Prefixes(a) == {SubSeq(a, 1, k) : k \in 1..(Len(a) - 1)}

\* Names that are no alias
OtherNames == {
    <<>>, <<" ">>,
    <<"x","y","z","1","2","3">>,
    <<"b","i","t","c","o","i","n">>,
    <<"s","o","l","a","n","a">>,
    <<"p","o","l","y","g","o","n">>,
    <<"o","p","t","i","m","i","s","m">>,
    <<"x"," ","s","e","p","o","l","i","a">>,
    <<"x","_","s","e","p","o","l","i","a">>,
    <<"a","h"," ","s","e","p","o","l","i","a">>,
    <<"a","r","b","e","t","h">>,
    <<"a","r","b","i","t","r","i","n","b","a","s","e">>,
    <<"t","e","s","t","n","e","t"," ","f","u","j","i">>,
    <<"E","t","h","e","r","i","u","m"," ","S","e","p","o","l","i","a","\n">> }

InitialAliases == UNION {Range(InitialChains[c].aliases) : c \in 1..Len(InitialChains)}

ResolverInputs ==
    OtherNames \cup
    UNION {Variants(a) \cup Deletions(a) \cup Substitutions(a) \cup Prefixes(a) :
           a \in InitialAliases}

InitResolver ==
    /\ SUPPORTED_CHAINS = InitialChains
    /\ pc = [i \in Invocations |-> IF i \in Serial THEN "called" ELSE "idle"]
    /\ name = [i \in Invocations |-> IF i \in Serial THEN FIND ELSE None]
    /\ \E w \in ResolverInputs :
          arguments = [i \in Invocations |->
                          IF i \in Serial THEN [k \in {"chain_input"} |-> w]
                          ELSE [k \in {} |-> <<>>]]
    /\ frame = [i \in Invocations |-> FreshFrame]
    /\ step = [i \in Invocations |-> 0]
    /\ clients = [i \in Invocations |-> <<>>]
    /\ calls = [i \in Invocations |-> <<>>]
    /\ response = [i \in Invocations |-> None]

NextResolver == \E i \in Serial : HandleFind(i)

SpecResolver == InitResolver /\ [][NextResolver]_vars

----------------------------------------------------------------------------
(* Two invocations at once.  handle_call_tool is a coroutine without an     *)
(* await, so the event loop itself never interleaves two invocations; a     *)
(* dispatch layer that ran them on threads could switch between them at any *)
(* point.  Every interleaving of the two invocations' steps is taken here.  *)

\* <<sender_chain, receiver_chain, private_key, keys>> of the transfer
\* requests made at once: two that pass validation, with different chains,
\* credentials and parameters, one that differs from the first in the
\* credential alone, and one whose chains are the same.
ConcurrentCases == {
    <<<<"e","t","h">>, <<" ","B","a","s","e"," ">>, <<"0xKEY1">>, RequiredKeys>>,
    <<<<"e","t","h">>, <<" ","B","a","s","e"," ">>, <<"0xKEY2">>, RequiredKeys>>,
    <<<<"A","V","A","X">>, <<"s","e","p","o","l","i","a">>, <<"0xKEY2">>,
      RequiredKeys \cup OptionalKeys>>,
    <<<<"e","t","h">>, <<"s","e","p","o","l","i","a">>, <<"0xKEY1">>, RequiredKeys>> }

ConcurrentArgumentsOf(n) ==
    IF n = EXECUTE
    THEN {a \in ExecuteArguments :
             /\ RequiredKeys \subseteq DOMAIN a
             /\ <<a["sender_chain"], a["receiver_chain"], a["private_key"], DOMAIN a>>
                    \in ConcurrentCases}
    ELSE {a \in FindArguments :
             /\ "chain_input" \in DOMAIN a
             /\ a["chain_input"] \in {<<"A","V","A","X">>, <<"x","y","z","1","2","3">>}}

\* str(e) of the exception a capability call, or the constructor, may raise
\* while two invocations run.
ConcurrentErrorTexts == {<<"execution reverted">>}

NextConcurrent ==
    \E i \in Invocations :
        \/ \E n \in ToolNames : \E args \in ConcurrentArgumentsOf(n) : Call(i, n, args)
        \/ \E ctor \in {None} \cup ConcurrentErrorTexts : HandleExecute(i, ctor)
        \/ \E v \in UNION {ReturnValues(k) : k \in 1..Len(StepOps)} : StepReturn(i, v)
        \/ \E e \in ConcurrentErrorTexts : StepRaise(i, e)
        \/ HandleFind(i)
        \/ HandleUnknown(i)
        \/ Deliver(i)

SpecConcurrent == Init /\ [][NextConcurrent]_vars

----------------------------------------------------------------------------
(* What the properties below speak of *)

\* The invocation i of execute_ccip_transfer has returned.
Executed(i) == pc[i] = "done" /\ name[i] = EXECUTE

\* The operations of the capability calls cs, in the order they were issued
OpsOf(cs) == [k \in 1..Len(cs) |-> cs[k].op]

\* The steps of invocation i whose capability call raised
RaisedSteps(i) == {k \in 1..Len(calls[i]) : calls[i][k].outcome = "raised"}

\* Validation passed in invocation i: both chains were resolved and differ.
Validated(i) ==
    /\ frame[i].sender_chain \notin {Unbound, None}
    /\ frame[i].receiver_chain \notin {Unbound, None}
    /\ frame[i].sender_chain # frame[i].receiver_chain

\* All eight capability calls of invocation i were issued and returned.
AllReturned(i) ==
    /\ Len(calls[i]) = Len(StepOps)
    /\ \A k \in 1..Len(calls[i]) : calls[i][k].outcome = "returned"

\* The text is the success response, a failure response.
IsSuccessText(text) == Contains(text, CompleteMark) /\ Contains(text, AllStepsMark)

FailureHeads == {"[X] **Transfer Failed**\n\n", "[X] Invalid sender chain '",
                 "[X] Invalid receiver chain '",
                 "[X] Sender and receiver chains must be different"}

IsFailureText(text) ==
    /\ text # None
    /\ Len(text) > 0
    /\ text[1] \in FailureHeads
    /\ ~Contains(text, CompleteMark)
    /\ ~Contains(text, AllStepsMark)

----------------------------------------------------------------------------
(* C1.  In every state of every invocation the capability calls issued so  *)
(* far are the first operations of the fixed order deploy_sender_contract, *)
(* ..., transfer, each once, and every call but the last has returned (a   *)
(* call is issued only after the one before it returned).  When the        *)
(* invocation has returned after validation passed and no call raised, all *)
(* eight calls were made and the response is the success text carrying the *)
(* sender contract returned by step 1, the receiver contract returned by   *)
(* step 5 and the tracking handle returned by step 8.                      *)
C1_OrderedOnceAndHandles ==
    \A i \in Invocations :
        /\ Len(calls[i]) <= Len(StepOps)
        /\ OpsOf(calls[i]) = SubSeq(StepOps, 1, Len(calls[i]))
        /\ \A k \in 1..(Len(calls[i]) - 1) : calls[i][k].outcome = "returned"
        /\ (Executed(i) /\ Validated(i) /\ frame[i].client # Unbound /\ RaisedSteps(i) = {})
            => /\ AllReturned(i)
               /\ IsSuccessText(response[i])
               /\ Contains(response[i], SenderContractLine(calls[i][1].value))
               /\ Contains(response[i], ReceiverContractLine(calls[i][5].value))
               /\ Contains(response[i], TrackLine(calls[i][8].value))

\* A transfer has completed whose two contracts differ.
C1_Witness ==
    \E i \in Invocations :
        /\ Executed(i)
        /\ AllReturned(i)
        /\ calls[i][1].value # calls[i][5].value

(* C2.  When the invocation has returned and the capability call of step k *)
(* raised, the calls made are exactly those of steps 1..k, in order and    *)
(* once each (none after step k, none again for step k, none that undoes   *)
(* an earlier step), the calls of steps 1..k-1 returned, and the response  *)
(* is a failure text.                                                      *)
C2_HaltOnFirstFailure ==
    \A i \in Invocations :
        \A k \in RaisedSteps(i) :
            Executed(i) =>
                /\ Len(calls[i]) = k
                /\ OpsOf(calls[i]) = SubSeq(StepOps, 1, k)
                /\ \A j \in 1..(k - 1) : calls[i][j].outcome = "returned"
                /\ IsFailureText(response[i])

\* The call of step 5 raised after steps 1..4 returned, and the invocation
\* has returned.
C2_Witness ==
    \E i \in Invocations :
        /\ Executed(i)
        /\ RaisedSteps(i) = {5}

(* C3.  When the invocation has returned and its sender and receiver       *)
(* inputs both resolved, to the same canonical identifier, the response is *)
(* the same-chain failure text, no capability call was made and no client  *)
(* was constructed.                                                        *)
C3_SameChainRejected ==
    \A i \in Invocations :
        (/\ Executed(i)
         /\ frame[i].sender_chain \notin {Unbound, None}
         /\ frame[i].sender_chain = frame[i].receiver_chain)
        => /\ response[i] = SameChainText
           /\ calls[i] = <<>>
           /\ clients[i] = <<>>

\* Two different inputs that resolve to the same chain were rejected.
C3_Witness ==
    \E i \in Invocations :
        /\ Executed(i)
        /\ frame[i].sender_chain \notin {Unbound, None}
        /\ frame[i].sender_chain = frame[i].receiver_chain
        /\ frame[i].sender_input # frame[i].receiver_input
        /\ response[i] = SameChainText

(* C4.  When the invocation has returned and the sender input did not      *)
(* resolve, the response is the invalid-sender text naming the raw sender  *)
(* input, whether or not the receiver input resolved; when the sender      *)
(* input resolved and the receiver input did not, the response is the      *)
(* invalid-receiver text naming the raw receiver input.  In both cases no  *)
(* capability call was made and no client was constructed.                 *)
C4_UnresolvedChainOrder ==
    \A i \in Invocations :
        /\ (Executed(i) /\ frame[i].sender_chain = None)
            => /\ response[i] = InvalidSenderText(SUPPORTED_CHAINS, arguments[i]["sender_chain"])
               /\ calls[i] = <<>>
               /\ clients[i] = <<>>
        /\ (Executed(i) /\ frame[i].sender_chain \notin {Unbound, None}
                        /\ frame[i].receiver_chain = None)
            => /\ response[i] = InvalidReceiverText(SUPPORTED_CHAINS, arguments[i]["receiver_chain"])
               /\ calls[i] = <<>>
               /\ clients[i] = <<>>

\* Neither input resolved, and the response names the sender input.
C4_Witness ==
    \E i \in Invocations :
        /\ Executed(i)
        /\ frame[i].sender_chain = None
        /\ frame[i].receiver_chain = None
        /\ Contains(response[i], <<"[X] Invalid sender chain '">> \o arguments[i]["sender_chain"])

(* C5.  When the invocation has returned and the capability call of step k *)
(* raised, the response tells k: it holds the progress marker of step k,   *)
(* "**Step k:**", and of no later step.                                    *)
C5_FailedStepInResponse ==
    \A i \in Invocations :
        \A k \in RaisedSteps(i) :
            Executed(i) =>
                /\ Contains(response[i], StepMarker(k))
                /\ \A j \in (k + 1)..Len(StepOps) : ~Contains(response[i], StepMarker(j))

(* C6.  When the invocation has returned and a capability call raised with *)
(* error text t, the response holds t itself as its cause: "**Error:** t"  *)
(* followed by the troubleshooting section.                                *)
C6_CauseVerbatim ==
    \A i \in Invocations :
        \A k \in RaisedSteps(i) :
            Executed(i) =>
                Contains(response[i],
                         <<"**Error:** ">> \o calls[i][k].value \o <<"\n\n**Troubleshooting:**\n">>)

\* A call raised "insufficient funds" and the invocation has returned.
C6_Witness ==
    \E i \in Invocations :
        /\ Executed(i)
        /\ \E k \in RaisedSteps(i) : calls[i][k].value = <<"insufficient funds">>

\* The failure paths of a returned invocation
SenderUnresolved(i) == Executed(i) /\ frame[i].sender_chain = None

ReceiverUnresolved(i) ==
    /\ Executed(i)
    /\ frame[i].sender_chain \notin {Unbound, None}
    /\ frame[i].receiver_chain = None

SameChain(i) ==
    /\ Executed(i)
    /\ frame[i].sender_chain \notin {Unbound, None}
    /\ frame[i].sender_chain = frame[i].receiver_chain

StepFailed(i) == Executed(i) /\ RaisedSteps(i) # {}

ListsChains(text) == Contains(text, ListRepr(ChainKeys(SUPPORTED_CHAINS)))
ListsTokens(text) == Contains(text, SupportedTokensText)

C8_SuccessIffAllSteps ==
    \A i \in Invocations :
        Executed(i) =>
            /\ IsSuccessText(response[i]) <=> (Validated(i) /\ AllReturned(i))
            /\ ~IsSuccessText(response[i]) => IsFailureText(response[i])

\* Seven steps returned, the transfer itself raised, and the response is a
\* failure text.
C8_Witness ==
    \E i \in Invocations :
        /\ Executed(i)
        /\ RaisedSteps(i) = {Len(StepOps)}
        /\ IsFailureText(response[i])

----------------------------------------------------------------------------
(* The resolver's properties, of find_supported_chain's local match *)

\* Invocation i of find_supported_chain has resolved its input.
Resolved(i) == pc[i] = "done" /\ name[i] = FIND

\* <<x, c>> for every variant x (letter case, whitespace around) of every
\* alias of chain number c
VariantPairs ==
    UNION {{<<x, c>> : x \in UNION {Variants(a) : a \in Range(InitialChains[c].aliases)}} :
           c \in 1..Len(InitialChains)}

(* C9.  When find_closest_chain was applied to an alias of chain c written *)
(* in another letter case or with whitespace before or after it, the       *)
(* result is c, and it is the direct-match pass that yields c.             *)
C9_AliasResolvesExactly ==
    \A i \in Invocations :
        Resolved(i) =>
            \A c \in 1..Len(SUPPORTED_CHAINS) :
                <<frame[i].chain_input, c>> \in VariantPairs
                => /\ frame[i].match = SUPPORTED_CHAINS[c].key
                   /\ DirectMatch(SUPPORTED_CHAINS, Normalize(frame[i].chain_input))
                          = SUPPORTED_CHAINS[c].key

\* An alias in upper case with whitespace on both sides was resolved.
C9_Witness ==
    \E i \in Invocations :
        /\ Resolved(i)
        /\ \E c \in 1..Len(SUPPORTED_CHAINS) :
              /\ <<frame[i].chain_input, c>> \in VariantPairs
              /\ frame[i].match = SUPPORTED_CHAINS[c].key
        /\ frame[i].chain_input # Lower(frame[i].chain_input)
        /\ Head(frame[i].chain_input) \in Whitespace
        /\ frame[i].chain_input[Len(frame[i].chain_input)] \in Whitespace

\* The lower-cased aliases of the registry, and the keys of the chains that
\* have the alias a
AliasSet == Range(AllAliases(SUPPORTED_CHAINS))

OwnersOf(a) ==
    {SUPPORTED_CHAINS[c].key :
        c \in {d \in 1..Len(SUPPORTED_CHAINS) : a \in Range(LowerAll(SUPPORTED_CHAINS[d].aliases))}}

\* The <<ratio, alias>> pairs of the aliases whose similarity to w is the
\* highest
TopScores(w) ==
    LET scores == {<<Ratio(a, w), a>> : a \in AliasSet}
    IN  {s \in scores : \A t \in scores : ~RatioLess(s[1], t[1])}

(* C10.  When find_closest_chain was applied to an input whose normalized  *)
(* form w is no alias: if the highest similarity ratio of an alias to w is *)
(* at least 0.6, the result is a chain that has an alias of that highest   *)
(* ratio; otherwise the result is None.  No exception leaves the call: an  *)
(* invocation that has its chain_input ends with a response.               *)
C10_FuzzyBestOrAbsent ==
    \A i \in Invocations :
        /\ pc[i] = "raised" => "chain_input" \notin DOMAIN arguments[i]
        /\ Resolved(i) =>
              LET w == Normalize(frame[i].chain_input)
                  top == TopScores(w)
              IN  w \notin AliasSet =>
                      IF \E s \in top : AtLeastCutoff(s[1])
                      THEN \E s \in top : frame[i].match \in OwnersOf(s[2])
                      ELSE frame[i].match = None

\* An input that is no alias was resolved, and aliases of two chains tie
\* for the highest ratio.
C10_Witness ==
    \E i \in Invocations :
        /\ Resolved(i)
        /\ Normalize(frame[i].chain_input) \notin AliasSet
        /\ frame[i].match # None
        /\ \E s, t \in TopScores(Normalize(frame[i].chain_input)) :
              OwnersOf(s[2]) \cap OwnersOf(t[2]) = {}

----------------------------------------------------------------------------
(* The dispatch boundary *)

\* An exception has left handle_call_tool in invocation i.
Thrown(i) == pc[i] = "raised"

\* Invocation i has returned one text.
ReturnedText(i) == pc[i] = "done" /\ response[i] # None /\ Len(response[i]) > 0

(* C11.  No exception leaves handle_call_tool: for every tool name and     *)
(* every argument map an invocation never ends by raising, an invocation   *)
(* that has ended has returned one text, and for a tool name other than    *)
(* the two known ones that text names the tool and no capability call was  *)
(* made.                                                                   *)
C11_NeverThrownPastDispatch ==
    \A i \in Invocations :
        /\ ~Thrown(i)
        /\ pc[i] = "done" => ReturnedText(i)
        /\ (pc[i] = "done" /\ name[i] \notin {EXECUTE, FIND})
            => /\ response[i] = UnknownToolText(name[i])
               /\ calls[i] = <<>>
               /\ clients[i] = <<>>

----------------------------------------------------------------------------
(* One invocation on its own: what handle_call_tool computes from its tool  *)
(* name, its argument map and the results cs of its capability calls.       *)

\* The locals after lines 125-160 of a transfer request that passes
\* validation and whose client was constructed.
AloneFrame(args) ==
    Evaluated({[WithOptionals(f, args) EXCEPT !.client = args["private_key"]] :
               f \in {[FreshFrame EXCEPT
                          !.sender_input = args["sender_chain"],
                          !.receiver_input = args["receiver_chain"],
                          !.private_key = args["private_key"],
                          !.sender_chain =
                              find_closest_chain_in(InitialChains, args["sender_chain"]),
                          !.receiver_chain =
                              find_closest_chain_in(InitialChains, args["receiver_chain"])]}})

\* The locals f after the results of the calls 1..k of cs were assigned.
WithResults(f, cs, k) ==
    [x \in DOMAIN f |->
        IF \E j \in 1..k : StepResultVar[j] = x
        THEN cs[CHOOSE j \in 1..k : StepResultVar[j] = x].value
        ELSE f[x]]

\* result_text at the moment the call of step k is issued, the calls before
\* it having returned the values recorded in cs.
RECURSIVE TraceText(_, _, _)
TraceText(f, cs, k) ==
    IF k = 0 THEN StartText(f)
    ELSE TraceText(f, cs, k - 1)
         \o (IF k > 1 THEN ResultText(k - 1, cs[k - 1].value) ELSE <<>>)
         \o AttemptText(k, f)

\* The capability calls made with the locals f when the results are those
\* recorded in cs.
AloneCalls(f, cs) ==
    [k \in 1..Len(cs) |->
        [IssueCall(k, f) EXCEPT !.outcome = cs[k].outcome, !.value = cs[k].value]]

\* str(KeyError) of the first required key the argument map lacks
MissingKeyText(args) ==
    KeyErrorText(IF "sender_chain" \notin DOMAIN args THEN "sender_chain"
                 ELSE IF "receiver_chain" \notin DOMAIN args THEN "receiver_chain"
                 ELSE "private_key")

\* The text a transfer request with the locals f returns when its client
\* constructions ended as recorded in cl and its capability calls as
\* recorded in cs.
AloneExecuteResponse(f, cl, cs) ==
    LET invalid == ValidationFailure(InitialChains, f)
        n == Len(cs)
    IN  IF invalid # None THEN invalid
        ELSE IF n = 0 THEN error_msg(InitialChains, cl[Len(cl)].raised)
        ELSE IF cs[n].outcome = "raised" THEN error_msg(InitialChains, cs[n].value)
        ELSE TraceText(f, cs, n) \o CompleteText(WithResults(f, cs, n))

\* The text a resolve request returns.
AloneFindResponse(chain_input) ==
    Evaluated({IF match # None THEN ChainFoundText(chain_input, match)
               ELSE NoMatchText(InitialChains, chain_input) :
               match \in {find_closest_chain_in(InitialChains, chain_input)}})

\* Invocation i made the calls, and returned the text, it would have on its
\* own.
AsAlone(i) ==
    IF name[i] = EXECUTE
    THEN IF RequiredKeys \subseteq DOMAIN arguments[i]
         THEN (calls[i] # <<>> \/ pc[i] = "done") =>
                 \A f \in {AloneFrame(arguments[i])} :
                     /\ calls[i] = AloneCalls(f, calls[i])
                     /\ (pc[i] = "done") =>
                           (response[i] = AloneExecuteResponse(f, clients[i], calls[i]))
         ELSE /\ calls[i] = <<>>
              /\ (pc[i] = "done") =>
                    (response[i] = error_msg(InitialChains, MissingKeyText(arguments[i])))
    ELSE /\ calls[i] = <<>>
         /\ (pc[i] = "done") =>
               (response[i] = IF name[i] = FIND
                              THEN AloneFindResponse(arguments[i]["chain_input"])
                              ELSE UnknownToolText(name[i]))

\* The part of the state that belongs to invocation i
Own(i) == <<pc[i], name[i], arguments[i], frame[i], step[i], clients[i], calls[i],
            response[i]>>

\* A step moves one invocation and leaves the other invocations' locals,
\* calls, clients and response, and the registry, as they were.
OneInvocationMoves ==
    /\ \E i \in Invocations : \A j \in Invocations \ {i} : Own(j)' = Own(j)
    /\ SUPPORTED_CHAINS' = SUPPORTED_CHAINS

(* C12.  Under every interleaving of the steps of two invocations, each    *)
(* invocation makes the capability calls and returns the text that it      *)
(* makes and returns on its own with the same capability results, and a    *)
(* step of one invocation changes nothing of the other.                    *)
C12_ConcurrentIndependent ==
    /\ [](\A i \in Invocations : AsAlone(i))
    /\ [][OneInvocationMoves]_vars

\* Two different transfers are under way at once, each between two of its
\* steps.
C12_Witness ==
    /\ pc[1] = "step" /\ pc[2] = "step"
    /\ step[1] = 3 /\ step[2] = 6
    /\ arguments[1] # arguments[2]
    /\ frame[1].sender_chain # frame[2].sender_chain

----------------------------------------------------------------------------
(* The credential *)

\* The argument maps a and b are the same but for private_key.
DifferOnlyInKey(a, b) ==
    /\ DOMAIN a = DOMAIN b
    /\ \A k \in DOMAIN a \ {"private_key"} : a[k] = b[k]

\* The constructor and the capability calls of invocations i and j ended
\* the same way.
SameResults(i, j) ==
    /\ Len(clients[i]) = Len(clients[j])
    /\ \A k \in 1..Len(clients[i]) : clients[i][k].raised = clients[j][k].raised
    /\ Len(calls[i]) = Len(calls[j])
    /\ \A k \in 1..Len(calls[i]) :
          /\ calls[i][k].outcome = calls[j][k].outcome
          /\ calls[i][k].value = calls[j][k].value

----------------------------------------------------------------------------
(* The resolve-chain operation *)

(* C14.  When an invocation of find_supported_chain has returned, it made  *)
(* no capability call and constructed no client, and it returned one text: *)
(* when find_closest_chain maps chain_input to a chain c the text states   *)
(* c ("-> ~c~"), and when it maps it to None the text ends with the list   *)
(* of the canonical identifiers of the registry, all four and no other.    *)
C14_ResolveOperationText ==
    \A i \in Invocations :
        Resolved(i) =>
            /\ calls[i] = <<>>
            /\ clients[i] = <<>>
            /\ ReturnedText(i)
            /\ \A c \in {find_closest_chain(arguments[i]["chain_input"])} :
                  IF c # None
                  THEN /\ c \in Range(ChainKeys(SUPPORTED_CHAINS))
                       /\ response[i] = <<"[OK] **Chain Found:** ~">>
                                        \o arguments[i]["chain_input"]
                                        \o <<"~ -> ~">> \o c \o <<"~">>
                  ELSE /\ Len(ChainKeys(SUPPORTED_CHAINS)) = Cardinality(Range(ChainKeys(SUPPORTED_CHAINS)))
                       /\ Cardinality(Range(ChainKeys(SUPPORTED_CHAINS))) = Len(InitialChains)
                       /\ response[i] = <<"[X] **No Match:** ~">>
                                        \o arguments[i]["chain_input"]
                                        \o <<"~\n\nSupported: ">>
                                        \o ListRepr(ChainKeys(SUPPORTED_CHAINS))
                       /\ \A k \in Range(ChainKeys(InitialChains)) :
                             Contains(response[i], <<"'">> \o k \o <<"'">>)

\* An input that is not empty was resolved to no chain and the text lists
\* the chains.
C14_Witness ==
    \E i \in Invocations :
        /\ Resolved(i)
        /\ frame[i].match = None
        /\ Len(arguments[i]["chain_input"]) > 3
        /\ ListsChains(response[i])

----------------------------------------------------------------------------
(* The transfer parameters *)

\* The documented defaults of the optional parameters
DocumentedDefaults ==
    [token_type |-> <<"CCIP-BnM">>, token_amount |-> <<"0.1">>, eth_amount |-> <<"0.05">>,
     transfer_amount |-> <<"0.069">>, message |-> <<"Cross-chain transfer via MCP">>]

\* The value of the optional parameter k of invocation i: the one given in
\* the argument map, the documented default if none is given.
Parameter(i, k) ==
    IF k \in DOMAIN arguments[i] THEN arguments[i][k] ELSE DocumentedDefaults[k]

(* C15.  Every capability call carries the request's parameters: the call  *)
(* of step 2 its token_type and token_amount, the call of step 3 its       *)
(* eth_amount, the call of step 8 its message and its transfer_amount,     *)
(* where a parameter absent from the argument map has its documented       *)
(* default and a parameter present has the value given.                    *)
C15_ParametersReachCapability ==
    \A i \in Invocations :
        \A k \in 1..Len(calls[i]) :
            /\ k = 2 => /\ calls[i][k].args.arg1 = Parameter(i, "token_type")
                        /\ calls[i][k].args.arg2 = Parameter(i, "token_amount")
            /\ k = 3 => calls[i][k].args.arg1 = Parameter(i, "eth_amount")
            /\ k = 8 => /\ calls[i][k].args.text = Parameter(i, "message")
                        /\ calls[i][k].args.amount = Parameter(i, "transfer_amount")

\* The transfer was called for a request that gives token_amount and
\* message but no transfer_amount.
C15_Witness ==
    \E i \in Invocations :
        /\ Len(calls[i]) = Len(StepOps)
        /\ {"token_amount", "message"} \subseteq DOMAIN arguments[i]
        /\ "transfer_amount" \notin DOMAIN arguments[i]
        /\ calls[i][8].args.amount # calls[i][2].args.arg2
        /\ calls[i][8].args.text = GivenOptionals.message

----------------------------------------------------------------------------
(* The progress trace: the local result_text *)

\* The positions of the element x in text, and the n-th of them
PositionsOf(text, x) == {p \in 1..Len(text) : text[p] = x}

NthOf(P, n) == CHOOSE p \in P : Cardinality({q \in P : q < p}) = n - 1

\* The attempt records of text, in order: the step number of each
\* "**Step n:**" line
AttemptRecords(text) ==
    LET P == PositionsOf(text, StepMarker(1)[1])
    IN  [n \in 1..Cardinality(P) |-> text[NthOf(P, n) + 1]]

\* The result records of text, in order: the label and the artifact of
\* each "[OK] ..." line
ResultRecords(text) ==
    LET P == PositionsOf(text, "[OK] ")
    IN  [n \in 1..Cardinality(P) |-> <<text[NthOf(P, n) + 1], text[NthOf(P, n) + 2]>>]

\* s is the beginning of t.
IsPrefix(s, t) == Len(s) <= Len(t) /\ SubSeq(t, 1, Len(s)) = s

\* The progress trace of invocation i exists.
HasTrace(i) == frame[i].result_text # Unbound

\* In invocation i the call of step k is issued, or has raised.
AtStep(i, k) ==
    /\ HasTrace(i)
    /\ Len(calls[i]) = k
    /\ calls[i][k].outcome \in {"pending", "raised"}

\* What the trace holds when the call of step k is issued and after it
\* raised: the head without any step record, the attempt records of steps
\* 1..k and the result records of steps 1..k-1 with the values returned.
TraceAtStep(i, k) ==
    LET text == frame[i].result_text
        head == StartText(frame[i])
    IN  /\ IsPrefix(head, text)
        /\ AttemptRecords(head) = <<>> /\ ResultRecords(head) = <<>>
        /\ AttemptRecords(text) = [j \in 1..k |-> StepDigit(j)]
        /\ Len(ResultRecords(text)) = k - 1
        /\ \A j \in 1..(k - 1) :
              /\ ResultRecords(text)[j] = <<ResultText(j, calls[i][j].value)[2], calls[i][j].value[1]>>
              /\ Contains(text, ResultText(j, calls[i][j].value) \o StepMarker(j + 1))

\* A step only appends to the trace of a run.
TraceAppendOnly ==
    \A i \in Invocations :
        (HasTrace(i) /\ frame[i].result_text' # Unbound)
        => IsPrefix(frame[i].result_text, frame[i].result_text')

(* C16.  At the moment the capability call of step k is issued, and still  *)
(* after that call raised, the progress trace holds the attempt records of *)
(* steps 1..k in ascending order and the result records of steps 1..k-1    *)
(* alone, each with the value the capability returned; it starts without   *)
(* any step record; and every step of a run only appends to it.            *)
C16_TraceAppendOnly ==
    /\ [](\A i \in Invocations : \A k \in 1..Len(StepOps) : AtStep(i, k) => TraceAtStep(i, k))
    /\ [][TraceAppendOnly]_vars

\* The call of step 4 raised: the trace has four attempt records and three
\* result records.
C16_Witness ==
    \E i \in Invocations :
        /\ pc[i] = "done"
        /\ AtStep(i, 4)
        /\ calls[i][4].outcome = "raised"
        /\ Len(AttemptRecords(frame[i].result_text)) = 4
        /\ Len(ResultRecords(frame[i].result_text)) = 3

----------------------------------------------------------------------------
(* The registry *)

\* The aliases of chain number c, case-folded
FoldedAliases(c) == Range(LowerAll(SUPPORTED_CHAINS[c].aliases))

(* C17.  In every reachable state SUPPORTED_CHAINS is what the module      *)
(* defined at start: no invocation of either operation, successful, failed *)
(* or of an unknown tool, changes it.  It has exactly four canonical       *)
(* identifiers, and the alias sets of two different chains have no alias   *)
(* in common after case-folding.                                           *)
C17_RegistryReadOnly ==
    /\ SUPPORTED_CHAINS = InitialChains
    /\ Len(SUPPORTED_CHAINS) = 4
    /\ Cardinality(Range(ChainKeys(SUPPORTED_CHAINS))) = 4
    /\ \A c, d \in 1..Len(SUPPORTED_CHAINS) :
          c # d => FoldedAliases(c) \cap FoldedAliases(d) = {}

\* The fuzzy pass has resolved an input that is no alias, and the registry
\* is as it was.
C17_Witness ==
    \E i \in Invocations :
        /\ Resolved(i)
        /\ frame[i].match # None
        /\ Normalize(frame[i].chain_input) \notin UNION {FoldedAliases(c) : c \in 1..Len(SUPPORTED_CHAINS)}
        /\ SUPPORTED_CHAINS = InitialChains

----------------------------------------------------------------------------
(* The chains the capability is given *)

\* The chain arguments of the call of step k, when the sender chain is S
\* and the receiver chain is R
ChainsGiven(k, call, S, R) ==
    CASE k \in {1, 2, 3} -> call.args.arg0 = S
      [] k = 4 -> call.args.current_chain = S /\ call.args.destination_chain = R
      [] k = 5 -> call.args.arg0 = R
      [] k = 6 -> call.args.current_chain = R /\ call.args.sender_chain = S
      [] k \in {7, 8} -> call.args.sender_chain = S /\ call.args.receiver_chain = R

(* C18.  In every state in which an invocation has made a capability call, *)
(* the chains S and R that find_closest_chain yields for its sender and    *)
(* receiver inputs are two different canonical identifiers of the          *)
(* registry, and every call made carries them: steps 1, 2, 3 get S; step 4 *)
(* current chain S and destination R; step 5 gets R; step 6 current chain  *)
(* R and sender chain S; steps 7 and 8 sender S and receiver R.            *)
C18_CanonicalChainsPassed ==
    \A i \in Invocations :
        calls[i] # <<>> =>
            \A S \in {find_closest_chain(arguments[i]["sender_chain"])} :
            \A R \in {find_closest_chain(arguments[i]["receiver_chain"])} :
                /\ S \in Range(ChainKeys(SUPPORTED_CHAINS))
                /\ R \in Range(ChainKeys(SUPPORTED_CHAINS))
                /\ S # R
                /\ \A k \in 1..Len(calls[i]) : ChainsGiven(k, calls[i][k], S, R)

\* The call of step 6 was made for a request whose inputs are no canonical
\* identifiers: a typo as sender, an alias with blanks around as receiver.
C18_Witness ==
    \E i \in Invocations :
        /\ Len(calls[i]) >= 6
        /\ arguments[i]["sender_chain"] = <<"a","r","b","i","t","r","u","n">>
        /\ arguments[i]["receiver_chain"] = <<" ","B","a","s","e"," ">>
        /\ calls[i][6].args.current_chain # arguments[i]["receiver_chain"]

----------------------------------------------------------------------------
(* Before step 1 *)

\* The constructor of the client raised in invocation i.
ConstructorRaised(i) == clients[i] # <<>> /\ clients[i][Len(clients[i])].raised # None

\* The argument map of invocation i lacks a required argument.
ArgumentMissing(i) == ~(RequiredKeys \subseteq DOMAIN arguments[i])

(* C19.  A client is constructed only in an invocation whose sender and    *)
(* receiver inputs both resolved, to different chains.  When a transfer    *)
(* invocation has returned after the constructor raised, or after a        *)
(* required argument was found missing, the response is the failure text   *)
(* with the cause and none of the eight step operations was invoked; with  *)
(* an argument missing no client was constructed either.                   *)
C19_FailureBeforeStepOne ==
    \A i \in Invocations :
        /\ clients[i] # <<>> => Validated(i)
        /\ (Executed(i) /\ ConstructorRaised(i))
            => /\ calls[i] = <<>>
               /\ IsFailureText(response[i])
               /\ Contains(response[i], <<"**Error:** ">> \o clients[i][1].raised
                                         \o <<"\n\n**Troubleshooting:**\n">>)
        /\ (Executed(i) /\ ArgumentMissing(i))
            => /\ calls[i] = <<>>
               /\ clients[i] = <<>>
               /\ IsFailureText(response[i])
               /\ \E k \in RequiredKeys \ DOMAIN arguments[i] :
                     Contains(response[i],
                              <<"**Error:** ", "'", k, "'", "\n\n**Troubleshooting:**\n">>)

\* The constructor raised for a request that had passed validation.
C19_Witness ==
    \E i \in Invocations :
        /\ Executed(i)
        /\ ConstructorRaised(i)
        /\ Validated(i)
        /\ response[i][1] = "[X] **Transfer Failed**\n\n"

====
